---- MODULE Spec2Model ----
(***************************************************************************)
(* A model of the planning benchmark service of                            *)
(* moveit_ros/moveit_benchmarks/src/run_benchmark.cpp:                     *)
(* BenchmarkService::collectMetrics and BenchmarkService::computeBenchmark.*)
(*                                                                         *)
(* Reals (times, distances) are modelled by integers, angles by degrees on *)
(* a grid of 30 degrees, and boost::lexical_cast<std::string> by the       *)
(* decimal rendering of the integer.  The planners, the planning scene and *)
(* the state distance are collaborators outside the file: a planner's      *)
(* solve() is a nondeterministic choice of (solved, response), waypoints   *)
(* are grid points and their distance is the L1 distance.                  *)
(***************************************************************************)
EXTENDS Integers, Sequences, FiniteSets, TLC

\* ------------------------------------------------------------------ bounds
MaxCoord == 2
MaxWaypoints == 4
MaxSegments == 2
MaxTime == 3
MaxCount == 2
MaxFilter == 2

\* --------------------------------------------------------- small utilities
Max(a, b) == IF a >= b THEN a ELSE b

Abs(n) == IF n >= 0 THEN n ELSE -n

Range(s) == {s[n] : n \in 1..Len(s)}

RECURSIVE SumSeq(_)
SumSeq(s) == IF s = <<>> THEN 0 ELSE Head(s) + SumSeq(Tail(s))

SeqsUpTo(S, n) == UNION {[1..m -> S] : m \in 0..n}

\* std::map<std::string, std::string>: the empty map, and operator[] assignment
EmptyMap == [k \in {} |-> ""]

Put(m, k, v) == [x \in (DOMAIN m) \cup {k} |-> IF x = k THEN v ELSE m[x]]

\* boost::lexical_cast<std::string> of a bool and of a number
CastBool(b) == IF b THEN "1" ELSE "0"

CastReal(x) == ToString(x)

\* ------------------------------------------------- the scene collaborators
\* KinematicState::distance: the L1 distance of two grid points
distance(s, t) == Abs(s[1] - t[1]) + Abs(s[2] - t[2])

\* the scene's obstacle, and its unpadded collision check and distance
Obstacle == <<0, 1>>

checkCollisionUnpadded(s) == s = Obstacle

distanceToCollisionUnpadded(s) == distance(s, Obstacle)

\* ------------------------------------------------------------- the metrics
\* compute path length: for k = 1 .. p.size()-1, L += p[k-1]->distance(*p[k])
RECURSIVE PathLength(_, _)
PathLength(p, k) ==
    IF k > Len(p) THEN 0 ELSE distance(p[k - 1], p[k]) + PathLength(p, k + 1)

\* correct = false as soon as one waypoint is in collision
PathCorrect(p) == \A k \in 1..Len(p) : ~checkCollisionUnpadded(p[k])

\* clearance += d over the waypoints, then clearance /= p.size(); 0/0 is NaN
PathClearance(p) ==
    IF Len(p) = 0 THEN "nan"
    ELSE CastReal(SumSeq([k \in 1..Len(p) |-> distanceToCollisionUnpadded(p[k])]) \div Len(p))

\* boost::math::constants::pi<double>(), in degrees
Pi == 180

\* the angles of the modelled acos, in degrees, and 1000 * their cosines
AcosDegrees == <<0, 30, 60, 90, 120, 150, 180>>

CosMilli == <<1000, 866, 500, 0, -500, -866, -1000>>

\* acos(num / den) for den > 0 and -1 <= num/den <= 1, rounded down to the grid
Acos(num, den) ==
    LET ks == {k \in 1..Len(CosMilli) : CosMilli[k] * den >= 1000 * num}
    IN  AcosDegrees[CHOOSE k \in ks : \A q \in ks : q <= k]

\* the bounds of the interval taken as closed
MutAcosInRange(a, b, cdist) ==
    /\ a * b > 0
    /\ a * a + b * b - cdist * cdist >= -(2 * a * b)
    /\ a * a + b * b - cdist * cdist <= 2 * a * b

\* acosValue = (a*a + b*b - cdist*cdist) / (2.0*a*b) lies strictly inside (-1, 1).
\* With a*b = 0 the double division yields an infinity or a NaN, and both
\* comparisons with an infinity or a NaN cannot hold together.
AcosInRange(a, b, cdist) ==
    /\ a * b > 0
    /\ a * a + b * b - cdist * cdist > -(2 * a * b)
    /\ a * a + b * b - cdist * cdist < 2 * a * b

\* angle = pi - acos(acosValue); u = 2.0 * angle; u * u
TurnPenalty(a, b, cdist) ==
    LET angle == Pi - Acos(a * a + b * b - cdist * cdist, 2 * a * b)
        u     == 2 * angle
    IN  u * u

\* the loop of lines 176-200, from index k (1-based: waypoints k-2, k-1, k)
RECURSIVE SmoothnessLoop(_, _)
SmoothnessLoop(p, k) ==
    IF k > Len(p) THEN 0
    ELSE LET a     == distance(p[k - 2], p[k - 1])
             b     == distance(p[k - 1], p[k])
             cdist == distance(p[k - 2], p[k])
         IN  (IF AcosInRange(a, b, cdist) THEN TurnPenalty(a, b, cdist) ELSE 0)
             + SmoothnessLoop(p, k + 1)

\* compute smoothness: only if p.size() > 2, and then divided by p.size()
Smoothness(p) == IF Len(p) > 2 THEN SmoothnessLoop(p, 3) \div Len(p) ELSE 0

\* ---------------------------------------------------------- collectMetrics
\* a trajectory segment of a response carries its waypoints (what
\* convertToKinematicStates yields), mp_res.description[j] and
\* mp_res.processing_time[j]
SegmentKey(seg, what) == "path_" \o seg.description \o what

\* the five rundata[...] assignments of lines 203-207 for one segment
PutSegment(rundata, seg) ==
    LET p  == seg.waypoints
        r1 == Put(rundata, SegmentKey(seg, "_correct BOOLEAN"), CastBool(PathCorrect(p)))
        r2 == Put(r1, SegmentKey(seg, "_length REAL"), CastReal(PathLength(p, 2)))
        r3 == Put(r2, SegmentKey(seg, "_clearance REAL"), PathClearance(p))
        r4 == Put(r3, SegmentKey(seg, "_smoothness REAL"), CastReal(Smoothness(p)))
    IN  Put(r4, SegmentKey(seg, "_time REAL"), CastReal(seg.processing_time))

\* the loop over mp_res.trajectory, from segment j
RECURSIVE SegmentLoop(_, _, _)
SegmentLoop(rundata, trajectory, j) ==
    IF j > Len(trajectory) THEN rundata
    ELSE SegmentLoop(PutSegment(rundata, trajectory[j]), trajectory, j + 1)

\* process_time = total_time, minus each processing_time[j], floored at 0
MutProcessTime(trajectory, total_time) ==
    total_time - SumSeq([j \in 1..Len(trajectory) |-> trajectory[j].processing_time])

ProcessTime(trajectory, total_time) ==
    LET process_time ==
            total_time - SumSeq([j \in 1..Len(trajectory) |-> trajectory[j].processing_time])
    IN  IF process_time <= 0 THEN 0 ELSE process_time

\* the segment keys and process_time are written for a failed trial too
MutcollectMetrics(rundata, mp_res, solved, total_time) ==
    LET r0 == Put(Put(rundata, "total_time REAL", CastReal(total_time)),
                  "solved BOOLEAN", CastBool(solved))
    IN  Put(SegmentLoop(r0, mp_res, 1), "process_time REAL",
            CastReal(ProcessTime(mp_res, total_time)))

\* mp_res is the sequence of the response's trajectory segments
collectMetrics(rundata, mp_res, solved, total_time) ==
    LET r0 == Put(Put(rundata, "total_time REAL", CastReal(total_time)),
                  "solved BOOLEAN", CastBool(solved))
    IN  IF solved
        THEN Put(SegmentLoop(r0, mp_res, 1), "process_time REAL",
                 CastReal(ProcessTime(mp_res, total_time)))
        ELSE r0

\* ------------------------------------------------- the planner collaborators
\* planning_interface::Planner::getPlanningAlgorithms of the plugins
getPlanningAlgorithms(name) == IF name = "A" THEN <<"x", "y">> ELSE <<"z">>

\* planning_interface::Planner::getDescription
getDescription(name) == name

\* ----------------------------------------------------------------- state
VARIABLES
    planner_interfaces_,  \* the loaded planners, in the order of the std::map
    capable,              \* the planners whose canServiceRequest accepts the problem
    req,                  \* the ComputePlanningBenchmark request
    pc,                   \* where computeBenchmark stands
    pi,                   \* the planners to test
    planner_ids,          \* per tested planner, the algorithm ids to run
    average_count,        \* per tested planner, the number of repetitions
    i, j, c,              \* the loop indices of lines 323-329 (1-based)
    planner_id,           \* mp_req.motion_plan_request.planner_id
    mp_res,               \* the response object handed to every solve
    solved, total_time,   \* what the last solve returned and how long it took
    runs, data,           \* the records of the current group, and of the groups done
    first,                \* per tested planner: no solved trial yet
    res,                  \* the service response
    ret,                  \* what computeBenchmark returned
    out,                  \* the report files written
    calls                 \* the solve calls made so far, in order

vars == <<planner_interfaces_, capable, req, pc, pi, planner_ids, average_count,
          i, j, c, planner_id, mp_res, solved, total_time, runs, data, first,
          res, ret, out, calls>>

\* ------------------------------------------------- resolving the candidates
\* the index of the first restriction entry naming the planner, 0 for none
\* (found = -1 in the code, whose indices start at 0)
Found(r, name) ==
    LET hits == {n \in 1..Len(r.planner_interfaces) : r.planner_interfaces[n].name = name}
    IN  IF hits = {} THEN 0 ELSE CHOOSE n \in hits : \A m \in hits : n <= m

\* the group_name[id] form is not accepted
MutIsKnownId(known, group_name, id) == \E q \in 1..Len(known) : known[q] = id

\* a requested id is known: it equals a declared id or group_name[declared id]
IsKnownId(known, group_name, id) ==
    \E q \in 1..Len(known) :
        known[q] = id \/ group_name \o "[" \o known[q] \o "]" = id

\* the requested ids of entry found that are known, in request order
RECURSIVE KnownRequested(_, _, _, _)
KnownRequested(known, group_name, ids, k) ==
    IF k > Len(ids) THEN <<>>
    ELSE (IF IsKnownId(known, group_name, ids[k]) THEN <<ids[k]>> ELSE <<>>)
         \o KnownRequested(known, group_name, ids, k + 1)

\* lines 258-280: the algorithm ids of a candidate
ResolveIds(r, name, found) ==
    LET known == getPlanningAlgorithms(name)
    IN  IF found = 0 \/ r.planner_interfaces[found].planner_ids = <<>>
        THEN known
        ELSE KnownRequested(known, r.motion_plan_request.group_name,
                            r.planner_interfaces[found].planner_ids, 1)

\* lines 257, 260-265: the repetition count of a candidate
ResolveCount(r, found) ==
    IF found = 0 \/ r.planner_interfaces[found].planner_ids = <<>>
    THEN Max(1, r.default_average_count)
    ELSE IF Len(r.average_count) >= found
         THEN Max(1, r.average_count[found])
         ELSE Max(1, r.default_average_count)

\* the probe is not asked
MutIsCandidate(r, loaded, able, name) ==
    /\ name \in Range(loaded)
    /\ r.planner_interfaces = <<>> \/ Found(r, name) > 0

\* lines 237-250: the planner is skipped by the filter or by its probe
IsCandidate(r, loaded, able, name) ==
    /\ name \in Range(loaded)
    /\ r.planner_interfaces = <<>> \/ Found(r, name) > 0
    /\ name \in able

\* the loop of lines 234-284 over the loaded planners, from the n-th
RECURSIVE ResolveLoop(_, _, _, _)
ResolveLoop(r, loaded, able, n) ==
    IF n > Len(loaded) THEN [pi |-> <<>>, planner_ids |-> <<>>, average_count |-> <<>>]
    ELSE LET rest == ResolveLoop(r, loaded, able, n + 1)
             name == loaded[n]
         IN  IF IsCandidate(r, loaded, able, name)
             THEN [pi            |-> <<name>> \o rest.pi,
                   planner_ids   |-> <<ResolveIds(r, name, Found(r, name))>> \o rest.planner_ids,
                   average_count |-> <<ResolveCount(r, Found(r, name))>> \o rest.average_count]
             ELSE rest

\* --------------------------------------------------------------- the report
\* every property name a record can hold, in the order of std::set<std::string>
Descriptions == <<"plan", "simplify">>

PathKeys(d) ==
    << "path_" \o d \o "_clearance REAL", "path_" \o d \o "_correct BOOLEAN",
       "path_" \o d \o "_length REAL", "path_" \o d \o "_smoothness REAL",
       "path_" \o d \o "_time REAL" >>

KeyOrder ==
    PathKeys(Descriptions[1]) \o PathKeys(Descriptions[2])
        \o <<"process_time REAL", "solved BOOLEAN", "total_time REAL">>

\* one schema for all the groups
MutPropSeen(rundata) ==
    UNION {UNION {DOMAIN data[g][n] : n \in 1..Len(data[g])} : g \in 1..Len(data)}

\* lines 371-377: the keys of all the runs of a group, sorted
PropSeen(rundata) == UNION {DOMAIN rundata[n] : n \in 1..Len(rundata)}

Properties(rundata) == SelectSeq(KeyOrder, LAMBDA k : k \in PropSeen(rundata))

\* lines 384-390: one field of a run row, the value if the run has the key, then "; "
Field(run, property) == (IF property \in DOMAIN run THEN run[property] ELSE "") \o "; "

\* lines 382-392: the rows of a group
Rows(rundata, properties) ==
    [n \in 1..Len(rundata) |-> [k \in 1..Len(properties) |-> Field(rundata[n], properties[k])]]

\* lines 365-393: the section of group ri, which is algorithm p of planner q
Section(q, p, ri) ==
    [ name       |-> getDescription(pi[q]) \o "_" \o planner_ids[q][p],
      properties |-> Properties(data[ri]),
      n_runs     |-> Len(data[ri]),
      rows       |-> Rows(data[ri], Properties(data[ri])) ]

\* the group index starts again with every planner
RECURSIVE MutSections(_, _, _)
MutSections(q, p, ri) ==
    IF q > Len(pi) THEN <<>>
    ELSE IF p > Len(planner_ids[q]) THEN MutSections(q + 1, 1, ri)
    ELSE <<Section(q, p, p)>> \o MutSections(q, p + 1, ri + 1)

\* the loops of lines 362-363, from algorithm p of planner q, with ri groups written
RECURSIVE Sections(_, _, _)
Sections(q, p, ri) ==
    IF q > Len(pi) THEN <<>>
    ELSE IF p > Len(planner_ids[q]) THEN Sections(q + 1, 1, ri)
    ELSE <<Section(q, p, ri)>> \o Sections(q, p + 1, ri + 1)

\* lines 308-314
total_n_planners == SumSeq([n \in 1..Len(planner_ids) |-> Len(planner_ids[n])])

total_n_runs ==
    SumSeq([n \in 1..Len(planner_ids) |-> Len(planner_ids[n]) * average_count[n]])

\* ------------------------------------------------------------- the actions
\* a default-constructed MotionPlanDetailedResponse: no trajectory segment
NoResponse == <<>>

\* moveit_msgs::MoveItErrorCodes::SUCCESS
SUCCESS == 1

\* the first planner from n on that has an algorithm to run
RECURSIVE FirstPlanner(_, _)
FirstPlanner(ids, n) ==
    IF n > Len(ids) \/ ids[n] # <<>> THEN n ELSE FirstPlanner(ids, n + 1)

\* lines 220-314: the candidates are resolved; without any, the call fails
Resolve ==
    /\ pc = "start"
    /\ LET cand == ResolveLoop(req, planner_interfaces_, capable, 1)
           n    == FirstPlanner(cand.planner_ids, 1)
       IN  IF cand.pi = <<>>
           THEN /\ pc' = "failed"
                /\ ret' = "false"
                /\ UNCHANGED <<pi, planner_ids, average_count, i, first, res>>
           ELSE /\ pi' = cand.pi
                /\ planner_ids' = cand.planner_ids
                /\ average_count' = cand.average_count
                /\ res' = [res EXCEPT !.planner_interfaces = cand.pi,
                                      !.responses = [q \in 1..Len(cand.pi) |-> NoResponse]]
                /\ first' = [q \in 1..Len(cand.pi) |-> TRUE]
                /\ i' = n
                /\ pc' = IF n > Len(cand.pi) THEN "write" ELSE "solve"
                /\ UNCHANGED ret
    /\ UNCHANGED <<planner_interfaces_, capable, req, j, c, planner_id, mp_res, solved,
                   total_time, runs, data, out, calls>>

\* one record too many
MutRunData(n) == [k \in 1..(n + 1) |-> EmptyMap]

\* line 328: RunData runs(average_count[i]), one empty record per repetition
RunData(n) == [k \in 1..n |-> EmptyMap]

\* lines 327-334: one solve call, which returns ok after time t with the
\* response object holding r
SolveReturns(ok, r, t) ==
    /\ pc = "solve"
    /\ planner_id' = planner_ids[i][j]
    /\ runs' = IF c = 1 THEN RunData(average_count[i]) ELSE runs
    /\ solved' = ok
    /\ mp_res' = r
    /\ total_time' = t
    /\ calls' = Append(calls, [planner |-> i, algorithm |-> j, repetition |-> c,
                               planner_id |-> planner_ids[i][j],
                               solved |-> ok, mp_res |-> r])
    /\ pc' = "collect"
    /\ UNCHANGED <<planner_interfaces_, capable, req, pi, planner_ids, average_count,
                   i, j, c, data, first, res, ret, out>>

\* the slot is written by every solved trial
MutRecordFirst(slots, flags, n, response, ok) ==
    IF ok THEN [slots EXCEPT ![n] = response] ELSE slots

\* lines 340-344: record the first solution in the response
RecordFirst(slots, flags, n, response, ok) ==
    IF ok /\ flags[n] THEN [slots EXCEPT ![n] = response] ELSE slots

\* a failed trial is tried again
MutAdvance(ii, jj, cc) ==
    LET lastRep == solved /\ cc = average_count[ii]
        lastAlg == jj = Len(planner_ids[ii])
        n       == FirstPlanner(planner_ids, ii + 1)
    IN  [ i    |-> IF lastRep /\ lastAlg THEN n ELSE ii,
          j    |-> IF ~lastRep THEN jj ELSE IF lastAlg THEN 1 ELSE jj + 1,
          c    |-> IF lastRep THEN 1 ELSE IF solved THEN cc + 1 ELSE cc,
          push |-> lastRep,
          pc   |-> IF lastRep /\ lastAlg /\ n > Len(pi) THEN "write" ELSE "solve" ]

\* the loops of lines 323-329 step from (ii, jj, cc): the next repetition, the
\* next algorithm, the next planner that has one, or the end of the loops
Advance(ii, jj, cc) ==
    LET lastRep == cc = average_count[ii]
        lastAlg == jj = Len(planner_ids[ii])
        n       == FirstPlanner(planner_ids, ii + 1)
    IN  [ i    |-> IF lastRep /\ lastAlg THEN n ELSE ii,
          j    |-> IF ~lastRep THEN jj ELSE IF lastAlg THEN 1 ELSE jj + 1,
          c    |-> IF lastRep THEN 1 ELSE cc + 1,
          push |-> lastRep,
          pc   |-> IF lastRep /\ lastAlg /\ n > Len(pi) THEN "write" ELSE "solve" ]

\* lines 337-348: the trial is recorded and the loops advance
Collect ==
    /\ pc = "collect"
    /\ LET done == [runs EXCEPT ![c] = collectMetrics(runs[c], mp_res, solved, total_time)]
           to   == Advance(i, j, c)
       IN  /\ runs' = done
           /\ res' = [res EXCEPT !.responses = RecordFirst(@, first, i, mp_res, solved)]
           /\ first' = IF solved /\ first[i] THEN [first EXCEPT ![i] = FALSE] ELSE first
           /\ data' = IF to.push THEN Append(data, done) ELSE data
           /\ i' = to.i
           /\ j' = to.j
           /\ c' = to.c
           /\ pc' = to.pc
    /\ UNCHANGED <<planner_interfaces_, capable, req, pi, planner_ids, average_count,
                   planner_id, mp_res, solved, total_time, ret, out, calls>>

\* lines 350-398: the report is written and the call succeeds
WriteReport ==
    /\ pc = "write"
    /\ out' = Append(out, [planners |-> total_n_planners, sections |-> Sections(1, 1, 1)])
    /\ res' = [res EXCEPT !.error_code = SUCCESS]
    /\ ret' = "true"
    /\ pc' = "done"
    /\ UNCHANGED <<planner_interfaces_, capable, req, pi, planner_ids, average_count,
                   i, j, c, planner_id, mp_res, solved, total_time, runs, data, first,
                   calls>>

\* ------------------------------------------------------ the inputs and Init
Points == (0..MaxCoord) \X (0..1)

\* the responses a planner hands back in the benchmark runs
PlanSegment == [waypoints |-> << <<0, 0>>, <<1, 1>>, <<2, 0>> >>,
                description |-> "plan", processing_time |-> 1]

SimplifySegment == [waypoints |-> << <<0, 0>>, <<1, 0>> >>,
                    description |-> "simplify", processing_time |-> MaxTime]

BenchResponses == {<<PlanSegment>>, <<PlanSegment, SimplifySegment>>}

\* the restriction entries of a request: a loaded planner with no ids, with
\* known ids in an order of their own or with unknown ones, or a planner that
\* is not loaded
IdLists == {<<>>, <<"arm[y]", "x">>, <<"z", "bogus">>}

Entries ==
    {[name |-> "A", planner_ids |-> ids] : ids \in IdLists}
        \cup {[name |-> "B", planner_ids |-> ids] : ids \in {<<>>, <<"z", "bogus">>}}
        \cup {[name |-> "C", planner_ids |-> <<>>]}

\* an override is 0, which counts as 1, or the largest count
Requests ==
    [ planner_interfaces    : SeqsUpTo(Entries, MaxFilter),
      average_count         : SeqsUpTo({0, MaxCount}, MaxFilter),
      default_average_count : 0..MaxCount,
      motion_plan_request   : [group_name : {"arm"}] ]

\* the constructor advertises the service only with a planner loaded (line 100)
Registries == {<<"A">>, <<"A", "B">>}

InitCall ==
    /\ pc = "start"
    /\ pi = <<>>
    /\ planner_ids = <<>>
    /\ average_count = <<>>
    /\ i = 1
    /\ j = 1
    /\ c = 1
    /\ planner_id = ""
    /\ mp_res = NoResponse
    /\ solved = FALSE
    /\ total_time = 0
    /\ runs = <<>>
    /\ data = <<>>
    /\ first = <<>>
    /\ res = [planner_interfaces |-> <<>>, responses |-> <<>>, error_code |-> 0]
    /\ ret = "running"
    /\ out = <<>>
    /\ calls = <<>>

\* the benchmark runs: both planners are loaded and accept the problem, every
\* restriction entry names a loaded planner of its own and has its override
Init ==
    /\ planner_interfaces_ = <<"A", "B">>
    /\ capable = {"A", "B"}
    /\ req \in Requests
    /\ Len(req.average_count) = Len(req.planner_interfaces)
    /\ req.default_average_count = 1
    /\ \A m, n \in 1..Len(req.planner_interfaces) :
           /\ req.planner_interfaces[m].name \in capable
           /\ req.planner_interfaces[m].name = req.planner_interfaces[n].name => m = n
    /\ InitCall

\* a solve of the benchmark runs: it fails and leaves the response object as
\* it was, or it solves and fills it
Solve ==
    \/ SolveReturns(FALSE, mp_res, MaxTime)
    \/ \E r \in BenchResponses : SolveReturns(TRUE, r, MaxTime)

Next == Resolve \/ Solve \/ Collect \/ WriteReport

Spec == Init /\ [][Next]_vars

\* the requests at large: any registry, probes and request, with planners
\* that solve every problem the same way
InitRequests ==
    /\ planner_interfaces_ \in Registries
    /\ capable \in SUBSET Range(planner_interfaces_)
    /\ req \in Requests
    /\ Len(req.average_count) <= Len(req.planner_interfaces)
    /\ InitCall

SolveSame == SolveReturns(TRUE, <<PlanSegment>>, MaxTime)

NextRequests == Resolve \/ SolveSame \/ Collect \/ WriteReport

SpecRequests == InitRequests /\ [][NextRequests]_vars

\* collectMetrics at large: one call on a fresh record, for a response with one
\* segment of any waypoints or with segments of any times
Paths == SeqsUpTo(Points, MaxWaypoints)

PathResponses ==
    {<<[waypoints |-> p, description |-> "plan", processing_time |-> 1]>> : p \in Paths}

TimedResponses ==
    SeqsUpTo([waypoints : {<< <<0, 0>>, <<1, 0>> >>}, description : Range(Descriptions),
              processing_time : 0..MaxTime], MaxSegments)

InitMetrics ==
    /\ planner_interfaces_ = <<"A">>
    /\ capable = {"A"}
    /\ req \in Requests
    /\ req.planner_interfaces = <<>>
    /\ req.average_count = <<>>
    /\ req.default_average_count = 1
    /\ pi = <<>>
    /\ planner_ids = <<>>
    /\ average_count = <<>>
    /\ i = 1
    /\ j = 1
    /\ c = 1
    /\ planner_id = ""
    /\ solved \in BOOLEAN
    /\ \/ mp_res \in PathResponses /\ total_time = MaxTime
       \/ mp_res \in TimedResponses /\ total_time \in 0..MaxTime
    /\ runs = RunData(1)
    /\ data = <<>>
    /\ first = <<>>
    /\ res = [planner_interfaces |-> <<>>, responses |-> <<>>, error_code |-> 0]
    /\ ret = "running"
    /\ out = <<>>
    /\ calls = <<>>
    /\ pc = "metrics"

\* line 337: collectMetrics(runs[c], mp_res, solved, total_time)
Measure ==
    /\ pc = "metrics"
    /\ runs' = [runs EXCEPT ![c] = collectMetrics(runs[c], mp_res, solved, total_time)]
    /\ pc' = "measured"
    /\ UNCHANGED <<planner_interfaces_, capable, req, pi, planner_ids, average_count,
                   i, j, c, planner_id, mp_res, solved, total_time, data, first,
                   res, ret, out, calls>>

NextMetrics == Measure

SpecMetrics == InitMetrics /\ [][NextMetrics]_vars

\* ------------------------------------------------------------- properties
\* the solve calls whose trial has been recorded
Collected == IF pc = "collect" THEN Len(calls) - 1 ELSE Len(calls)

\* the place of algorithm p of planner q among the groups
GroupIndex(q, p) == SumSeq([n \in 1..(q - 1) |-> Len(planner_ids[n])]) + p

\* the record of a recorded call
RecordOf(call) ==
    LET g == GroupIndex(call.planner, call.algorithm)
    IN  IF g <= Len(data) THEN data[g][call.repetition] ELSE runs[call.repetition]

Resolved == pc \in {"solve", "collect", "write", "done"}

C2_RepetitionCount ==
    Resolved =>
        \A q \in 1..Len(pi) :
            LET hits == {n \in 1..Len(req.planner_interfaces) :
                            req.planner_interfaces[n].name = pi[q]}
                has  == \E n \in hits :
                            (\A m \in hits : n <= m) /\ n <= Len(req.average_count)
                over == req.average_count[CHOOSE n \in hits : \A m \in hits : n <= m]
            IN  /\ average_count[q] >= 1
                /\ average_count[q] =
                       IF has THEN (IF over >= 1 THEN over ELSE 1)
                       ELSE (IF req.default_average_count >= 1
                             THEN req.default_average_count ELSE 1)

\* C3: in the report, the section of every (planner, algorithm) group states N
\* runs and lists N run rows, N being the repetition count of the planner.
C3_RunRows ==
    pc = "done" =>
        /\ Len(out) = 1
        /\ Len(out[1].sections) = SumSeq([q \in 1..Len(pi) |-> Len(planner_ids[q])])
        /\ \A q \in 1..Len(pi) : \A p \in 1..Len(planner_ids[q]) :
               LET section == out[1].sections[GroupIndex(q, p)]
               IN  /\ section.n_runs = average_count[q]
                   /\ Len(section.rows) = average_count[q]

\* a report with a group of several runs, solved and failed
C3_Witness ==
    /\ pc = "done"
    /\ \E q \in 1..Len(pi) :
           /\ average_count[q] > 1
           /\ \E m, n \in 1..Len(calls) :
                  /\ calls[m].planner = q /\ calls[n].planner = q
                  /\ calls[m].algorithm = calls[n].algorithm
                  /\ calls[m].solved /\ ~calls[n].solved

\* the loaded planners the request asks for (all of them with no restriction
\* entry) whose probe accepts the problem
Candidates ==
    {name \in Range(planner_interfaces_) :
        /\ \/ Len(req.planner_interfaces) = 0
           \/ \E n \in 1..Len(req.planner_interfaces) : req.planner_interfaces[n].name = name
        /\ name \in capable}

\* C4: computeBenchmark fails, with no solve call and no report file, exactly
\* when there is no candidate; otherwise it returns success and writes one
\* report file, and until then it stands at a step it can take, within the
\* trial matrix.
C4_FailsIffNoCandidate ==
    /\ pc = "failed" => Candidates = {} /\ ret = "false" /\ calls = <<>> /\ out = <<>>
    /\ Candidates = {} => pc \in {"start", "failed"} /\ calls = <<>> /\ out = <<>>
    /\ pc = "done" => Candidates # {} /\ ret = "true" /\ Len(out) = 1
    /\ pc \notin {"failed", "done"} =>
           /\ ret = "running" /\ out = <<>>
           /\ \/ pc \in {"start", "write"}
              \/ /\ pc \in {"solve", "collect"}
                 /\ i \in 1..Len(pi)
                 /\ j \in 1..Len(planner_ids[i])
                 /\ c \in 1..average_count[i]
                 /\ Len(calls) <= SumSeq([q \in 1..Len(pi) |->
                                             Len(planner_ids[q]) * average_count[q]])

\* a request fails although a loaded planner accepts the problem: its
\* restriction entries name other planners
C4_Witness == pc = "failed" /\ capable # {} /\ req.planner_interfaces # <<>>

\* C5: a tested planner runs all its declared ids when the request names none
\* for it, and otherwise the requested names that are a declared id or
\* group_name[declared id], in request order; the other names give no solve
\* call and do not fail the request.
C5_ResolvedIds ==
    /\ Resolved =>
        \A q \in 1..Len(pi) :
            LET declared == getPlanningAlgorithms(pi[q])
                accepted == Range(declared)
                              \cup {req.motion_plan_request.group_name \o "[" \o d \o "]" :
                                        d \in Range(declared)}
                hits     == {n \in 1..Len(req.planner_interfaces) :
                                req.planner_interfaces[n].name = pi[q]}
                asked    == IF hits = {} THEN <<>>
                            ELSE req.planner_interfaces[
                                     CHOOSE n \in hits : \A m \in hits : n <= m].planner_ids
            IN  /\ planner_ids[q] = IF asked = <<>> THEN declared
                                    ELSE SelectSeq(asked, LAMBDA id : id \in accepted)
                /\ \A n \in 1..Len(calls) :
                       calls[n].planner = q =>
                           /\ calls[n].planner_id \in accepted
                           /\ asked # <<>> => calls[n].planner_id \in Range(asked)
    /\ pc = "failed" => Candidates = {}

\* a run ends with a planner whose entry named a known and an unknown id, and
\* with a planner whose entry named known ids in another order than declared
C5_Witness ==
    /\ pc = "done"
    /\ \E n \in 1..Len(req.planner_interfaces), q \in 1..Len(pi) :
           /\ req.planner_interfaces[n] = [name |-> pi[q], planner_ids |-> <<"z", "bogus">>]
           /\ planner_ids[q] = <<"z">>
    /\ \E q \in 1..Len(pi) : planner_ids[q] = <<"arm[y]", "x">>

\* C6: the property names of a section are the keys of the records of its own
\* group, each once; every run row has one "; "-terminated field per property,
\* empty where the record lacks the key.
C6_GroupSchema ==
    pc = "done" =>
        \A g \in 1..Len(out[1].sections) :
            LET section == out[1].sections[g]
                props   == section.properties
            IN  /\ Range(props) = UNION {DOMAIN data[g][n] : n \in 1..Len(data[g])}
                /\ Cardinality(Range(props)) = Len(props)
                /\ \A n \in 1..Len(section.rows) :
                       /\ Len(section.rows[n]) = Len(props)
                       /\ \A k \in 1..Len(props) :
                              section.rows[n][k] =
                                  IF props[k] \in DOMAIN data[g][n]
                                  THEN data[g][n][props[k]] \o "; "
                                  ELSE "; "

\* a report with sections of different schemas, one of them with an empty field
C6_Witness ==
    /\ pc = "done"
    /\ \E g, h \in 1..Len(out[1].sections) :
           /\ Len(out[1].sections[g].properties) < Len(out[1].sections[h].properties)
           /\ \E n \in 1..Len(out[1].sections[h].rows) :
                  \E k \in 1..Len(out[1].sections[h].properties) :
                      out[1].sections[h].rows[n][k] = "; "

\* C7: the response slot of a tested planner holds what the earliest solved
\* trial of that planner returned, and the empty response while none solved.
C7_FirstSolved ==
    Resolved =>
        /\ Len(res.responses) = Len(pi)
        /\ \A q \in 1..Len(pi) :
               LET hits == {n \in 1..Collected : calls[n].planner = q /\ calls[n].solved}
               IN  res.responses[q] =
                       IF hits = {} THEN NoResponse
                       ELSE calls[CHOOSE n \in hits : \A m \in hits : n <= m].mp_res

\* a run ends with a planner that solved twice with different responses and
\* with a planner that never solved
C7_Witness ==
    /\ pc = "done"
    /\ \E m, n \in 1..Len(calls) :
           /\ m < n /\ calls[m].planner = calls[n].planner
           /\ calls[m].solved /\ calls[n].solved /\ calls[m].mp_res # calls[n].mp_res
    /\ \E q \in 1..Len(pi) :
           /\ planner_ids[q] # <<>>
           /\ \A n \in 1..Len(calls) : calls[n].planner = q => ~calls[n].solved

\* the sum of the segment times of the response measured
SegmentTimes == SumSeq([k \in 1..Len(mp_res) |-> mp_res[k].processing_time])

\* C8: the residual processing time of a record is the total wall time of the
\* trial minus the sum of its segment times, or 0 if that is negative.
C8_ResidualTime ==
    pc = "measured" =>
        /\ solved => "process_time REAL" \in DOMAIN runs[1]
        /\ "process_time REAL" \in DOMAIN runs[1] =>
               /\ runs[1]["process_time REAL"] \in {CastReal(n) : n \in 0..MaxTime}
               /\ runs[1]["process_time REAL"] =
                      IF total_time >= SegmentTimes
                      THEN CastReal(total_time - SegmentTimes) ELSE "0"

\* two segments whose times add up to more than the wall time of the trial
C8_Witness ==
    /\ pc = "measured" /\ solved
    /\ Len(mp_res) = 2 /\ mp_res[1].processing_time > 0 /\ mp_res[2].processing_time > 0
    /\ total_time > 0 /\ total_time < SegmentTimes

\* the waypoints k-2, k-1, k of path p make a proper triangle: the sides
\* a, b, c have |a - b| < c < a + b, which is -1 < cos(theta) < 1
ProperTriangle(p, k) ==
    LET a == distance(p[k - 2], p[k - 1])
        b == distance(p[k - 1], p[k])
        cdist == distance(p[k - 2], p[k])
    IN  /\ a > 0 /\ b > 0
        /\ (a - b) * (a - b) < cdist * cdist
        /\ cdist * cdist < (a + b) * (a + b)

\* the printed reals from 0 to the largest penalty of a turn, (2 * pi)^2
PrintedPenalties == {CastReal(n) : n \in 0..(4 * Pi * Pi)}

\* C9: the smoothness of a segment is >= 0; it is 0 with at most 2 waypoints
\* and on a straight line (c = a + b in every triple); it is above 0 exactly
\* when a triple has its cos(theta) strictly inside (-1, 1).
C9_Smoothness ==
    pc = "measured" /\ solved =>
        \A n \in 1..Len(mp_res) :
            LET p == mp_res[n].waypoints
                s == runs[1]["path_" \o mp_res[n].description \o "_smoothness REAL"]
            IN  /\ s \in PrintedPenalties
                /\ Len(p) <= 2 => s = "0"
                /\ (\A k \in 3..Len(p) :
                        distance(p[k - 2], p[k]) =
                            distance(p[k - 2], p[k - 1]) + distance(p[k - 1], p[k]))
                       => s = "0"
                /\ s # "0" <=> \E k \in 3..Len(p) : ProperTriangle(p, k)

\* a path with a turn that counts, and with a turn back to the waypoint before
\* (cos(theta) = 1) that does not
C9_Witness ==
    /\ pc = "measured" /\ solved /\ Len(mp_res) = 1
    /\ LET p == mp_res[1].waypoints
       IN  /\ runs[1]["path_plan_smoothness REAL"] # "0"
           /\ \E k \in 3..Len(p) :
                  p[k] = p[k - 2] /\ p[k] # p[k - 1] /\ ~ProperTriangle(p, k)

\* C10: solve is called once for every (planner, algorithm, repetition) of
\* the matrix and never again, whatever the earlier trials returned; every
\* call returned is recorded with its outcome; at the end the records are as
\* many as the sum over the planners of algorithms x repetitions.
C10_EveryTrialOnce ==
    /\ \A m, n \in 1..Len(calls) :
           /\ calls[m].planner = calls[n].planner
           /\ calls[m].algorithm = calls[n].algorithm
           /\ calls[m].repetition = calls[n].repetition
           => m = n
    /\ \A n \in 1..Len(calls) :
           /\ calls[n].planner \in 1..Len(pi)
           /\ calls[n].algorithm \in 1..Len(planner_ids[calls[n].planner])
           /\ calls[n].repetition \in 1..average_count[calls[n].planner]
    /\ \A n \in 1..Collected :
           /\ "solved BOOLEAN" \in DOMAIN RecordOf(calls[n])
           /\ RecordOf(calls[n])["solved BOOLEAN"] = CastBool(calls[n].solved)
    /\ pc = "collect" => RecordOf(calls[Len(calls)]) = EmptyMap
    /\ pc = "failed" => calls = <<>>
    /\ pc \in {"write", "done"} =>
           /\ Len(calls) = SumSeq([q \in 1..Len(pi) |->
                                      Len(planner_ids[q]) * average_count[q]])
           /\ SumSeq([g \in 1..Len(data) |-> Len(data[g])]) = Len(calls)

\* a run ends in which a trial failed and later trials ran, one of them solved
C10_Witness ==
    /\ pc = "done"
    /\ \E m, n \in 1..Len(calls) : m < n /\ ~calls[m].solved /\ calls[n].solved
    /\ ~calls[Len(calls)].solved

\* the place of repetition r of algorithm p of planner q in the trial matrix
TrialIndex(q, p, r) ==
    SumSeq([n \in 1..(q - 1) |-> Len(planner_ids[n]) * average_count[n]])
        + (p - 1) * average_count[q] + r

\* the fields of a run row that hold a value
FilledFields(row) == Cardinality({k \in 1..Len(row) : row[k] # "; "})

\* the number of properties of the record of a call: the total time and the
\* outcome, and for a solved one the residual time and five per description
KeysOf(call) ==
    IF call.solved
    THEN 3 + 5 * Cardinality({call.mp_res[n].description : n \in 1..Len(call.mp_res)})
    ELSE 2

\* C11: the n-th solve call is the n-th trial in (planner, algorithm,
\* repetition) order, made with the algorithm id of the trial set on the
\* problem; the report has one section per (planner, algorithm) pair, in that
\* order, headed by the pair, whose rows are the records of the pair's trials
\* in repetition order, and its planner count is the number of sections.
C11_OrderOfTrialsAndGroups ==
    /\ \A n \in 1..Len(calls) :
           /\ n = TrialIndex(calls[n].planner, calls[n].algorithm, calls[n].repetition)
           /\ calls[n].planner_id = planner_ids[calls[n].planner][calls[n].algorithm]
    /\ pc = "collect" =>
           planner_id = planner_ids[calls[Len(calls)].planner][calls[Len(calls)].algorithm]
    /\ pc = "done" =>
           /\ out[1].planners = Len(out[1].sections)
           /\ Len(out[1].sections) = SumSeq([q \in 1..Len(pi) |-> Len(planner_ids[q])])
           /\ \A q \in 1..Len(pi) : \A p \in 1..Len(planner_ids[q]) :
                  LET section == out[1].sections[GroupIndex(q, p)]
                  IN  /\ section.name = getDescription(pi[q]) \o "_" \o planner_ids[q][p]
                      /\ Len(section.rows) = average_count[q]
                      /\ \A r \in 1..average_count[q] :
                             LET call == calls[TrialIndex(q, p, r)]
                             IN  /\ \E k \in 1..Len(section.properties) :
                                        /\ section.properties[k] = "solved BOOLEAN"
                                        /\ section.rows[r][k] = CastBool(call.solved) \o "; "
                                 /\ FilledFields(section.rows[r]) = KeysOf(call)

\* a report of three groups of two planners, the first planner's two groups
\* with records unlike each other and unlike the second planner's, and a
\* group whose repetitions had different outcomes
C11_Witness ==
    /\ pc = "done"
    /\ Len(pi) = 2 /\ Len(planner_ids[1]) = 2 /\ Len(planner_ids[2]) = 1
    /\ average_count[1] = 2
    /\ calls[1].solved /\ ~calls[2].solved
    /\ KeysOf(calls[3]) # KeysOf(calls[1]) /\ calls[3].solved
    /\ KeysOf(calls[5]) # KeysOf(calls[1]) /\ KeysOf(calls[5]) # KeysOf(calls[3])

====
